---- MODULE Spec2Model ----
(***************************************************************************)
(* Task tracker (alnah/task-tracker): the task entity, the file repository *)
(* and the task service, as state machines over the persisted artifact.    *)
(*                                                                         *)
(* A description is a sequence of characters; a time.Time value is a       *)
(* record of its wall-clock reading and whether it still carries a         *)
(* monotonic reading; the artifact holds JSON records whose timestamps are *)
(* wall-clock readings only.  Descriptions range over valid text.          *)
(*                                                                         *)
(* Spec, SpecStill and SpecRepo take the calls one after another on a      *)
(* medium that works; SpecFault adds an artifact that is damaged or        *)
(* removed and writes that fail; SpecRace runs the calls of two processes  *)
(* step by step; SpecShared runs whole calls of two service instances on   *)
(* one artifact.                                                           *)
(***************************************************************************)
EXTENDS Integers, Sequences, FiniteSets, TLC

VARIABLES
    file,        \* the artifact named by FileTaskRepository.filename
    clock,       \* the wall clock read by time.Now()
    last,        \* the most recent call and its outcome
    addedSeq,    \* ids returned by the successful AddTask calls, in call order
    deleteCalled, \* whether DeleteTask has been called
    medium,      \* what the file system does with the next os.WriteFile
    procs        \* the call each process is executing; the history of an instance

vars == <<file, clock, last, addedSeq, deleteCalled, medium, procs>>

----------------------------------------------------------------------------
(* Bounds *)

MaxAdds == 3
MaxTasks == 2
MaxClock == 1

(* Descriptions passed by callers. *)
Descriptions ==
    { <<>>,
      <<" ", "\t">>,
      <<" ", "a", "\n">>,
      <<"b", " ", "c">> }

IdArgs == 1 .. MaxAdds

StatusFilters == {"", "todo", "in-progress", "done", "bogus"}

----------------------------------------------------------------------------
(* Domain: constants, errors *)

StatusTodo == "todo"
StatusInProgress == "in-progress"
StatusDone == "done"

NoError == "nil"
ErrTaskNotFound == "NOT_FOUND"
ErrEmptyDescription == "EMPTY_DESCRIPTION"

NoTask == [ID |-> 0]

----------------------------------------------------------------------------
(* strings.TrimSpace *)

IsSpace(c) == c \in {" ", "\t", "\n", "\f", "\r"}

RECURSIVE TrimLeft(_)
TrimLeft(s) ==
    IF s = <<>> THEN <<>>
    ELSE IF IsSpace(Head(s)) THEN TrimLeft(Tail(s))
    ELSE s

RECURSIVE TrimRight(_)
TrimRight(s) ==
    IF s = <<>> THEN <<>>
    ELSE IF IsSpace(s[Len(s)]) THEN TrimRight(SubSeq(s, 1, Len(s) - 1))
    ELSE s

TrimSpace(s) == TrimRight(TrimLeft(s))

----------------------------------------------------------------------------
(* time.Now and the JSON form of a time.Time *)

Now(wall) == [wall |-> wall, mono |-> TRUE]

FormatTime(t) == t.wall

ParseTime(w) == [wall |-> w, mono |-> FALSE]

----------------------------------------------------------------------------
(* Task entity *)

NewTaskRaw(id, description, now) ==
    IF TrimSpace(description) = <<>>
    THEN [task |-> NoTask, err |-> ErrEmptyDescription]
    ELSE [task |-> [ID |-> id,
                    Description |-> description,
                    Status |-> StatusTodo,
                    CreatedAt |-> Now(now),
                    UpdatedAt |-> Now(now)],
          err |-> NoError]

NewTask(id, description, now) ==
    IF TrimSpace(description) = <<>>
    THEN [task |-> NoTask, err |-> ErrEmptyDescription]
    ELSE [task |-> [ID |-> id,
                    Description |-> TrimSpace(description),
                    Status |-> StatusTodo,
                    CreatedAt |-> Now(now),
                    UpdatedAt |-> Now(now)],
          err |-> NoError]

UpdateDescriptionNoCheck(t, description, now) ==
    [task |-> [t EXCEPT !.Description = TrimSpace(description),
                        !.UpdatedAt = Now(now)],
     err |-> NoError]

UpdateDescriptionTouchCreated(t, description, now) ==
    IF TrimSpace(description) = <<>>
    THEN [task |-> t, err |-> ErrEmptyDescription]
    ELSE [task |-> [t EXCEPT !.Description = TrimSpace(description),
                             !.CreatedAt = Now(now),
                             !.UpdatedAt = Now(now)],
          err |-> NoError]

UpdateDescription(t, description, now) ==
    IF TrimSpace(description) = <<>>
    THEN [task |-> t, err |-> ErrEmptyDescription]
    ELSE [task |-> [t EXCEPT !.Description = TrimSpace(description),
                             !.UpdatedAt = Now(now)],
          err |-> NoError]

MarkInProgressFromTodo(t, now) ==
    IF t.Status = StatusTodo
    THEN [t EXCEPT !.Status = StatusInProgress, !.UpdatedAt = Now(now)]
    ELSE t

MarkInProgressRestamps(t, now) ==
    [t EXCEPT !.Status = StatusInProgress, !.CreatedAt = Now(now),
              !.UpdatedAt = Now(now)]

MarkInProgressUnderscore(t, now) ==
    [t EXCEPT !.Status = "in_progress", !.UpdatedAt = Now(now)]

MarkInProgress(t, now) ==
    [t EXCEPT !.Status = StatusInProgress, !.UpdatedAt = Now(now)]

MarkDoneGuarded(t, now) ==
    IF t.Status = StatusInProgress
    THEN [t EXCEPT !.Status = StatusDone, !.UpdatedAt = Now(now)]
    ELSE t

MarkDoneResetsUpdated(t, now) ==
    [t EXCEPT !.Status = StatusDone, !.UpdatedAt = t.CreatedAt]

MarkDone(t, now) ==
    [t EXCEPT !.Status = StatusDone, !.UpdatedAt = Now(now)]

----------------------------------------------------------------------------
(* JSON encoding of the collection *)

MarshalTask(t) ==
    [id |-> t.ID,
     description |-> t.Description,
     status |-> t.Status,
     createdAt |-> FormatTime(t.CreatedAt),
     updatedAt |-> FormatTime(t.UpdatedAt)]

UnmarshalTaskSwapsTimes(r) ==
    [ID |-> r.id,
     Description |-> r.description,
     Status |-> r.status,
     CreatedAt |-> ParseTime(r.updatedAt),
     UpdatedAt |-> ParseTime(r.createdAt)]

UnmarshalTask(r) ==
    [ID |-> r.id,
     Description |-> r.description,
     Status |-> r.status,
     CreatedAt |-> ParseTime(r.createdAt),
     UpdatedAt |-> ParseTime(r.updatedAt)]

Marshal(tasks) == [i \in 1 .. Len(tasks) |-> MarshalTask(tasks[i])]

Unmarshal(recs) == [i \in 1 .. Len(recs) |-> UnmarshalTask(recs[i])]

----------------------------------------------------------------------------
(* FileTaskRepository *)

AbsentFile == [kind |-> "absent", recs |-> <<>>]

(* A file of no bytes. *)
EmptyFile == [kind |-> "empty", recs |-> <<>>]

(* A file whose content is not well-formed JSON, such as a proper *)
(* non-empty prefix of an encoded collection.                     *)
MalformedFile == [kind |-> "malformed", recs |-> <<>>]

JSONFile(recs) == [kind |-> "json", recs |-> recs]

(* os.WriteFile opens the file with O_WRONLY|O_CREATE|O_TRUNC, writes the  *)
(* data and closes the file.  It fails without touching the file when the  *)
(* file cannot be opened; once the file is open its old content is gone,   *)
(* and a failing write leaves what was written until then: nothing, or a   *)
(* part of the data.                                                       *)
Media == {"ok", "open-fails", "write-fails", "short-write"}

WriteFile(f, recs) ==
    IF medium = "ok" THEN [file |-> JSONFile(recs), err |-> NoError]
    ELSE IF medium = "open-fails" THEN [file |-> f, err |-> "failed to write file"]
    ELSE IF medium = "write-fails" THEN [file |-> EmptyFile, err |-> "failed to write file"]
    ELSE [file |-> MalformedFile, err |-> "failed to write file"]

(* json.MarshalIndent does not fail on tasks stamped by time.Now. *)
Save(f, tasks) == WriteFile(f, Marshal(tasks))

LoadNoEmptyCheck(f) ==
    IF f.kind = "absent" THEN [tasks |-> <<>>, err |-> NoError]
    ELSE IF f.kind = "json" THEN [tasks |-> Unmarshal(f.recs), err |-> NoError]
    ELSE [tasks |-> <<>>, err |-> "failed to unmarshal tasks"]

LoadLenient(f) ==
    IF f.kind = "json" THEN [tasks |-> Unmarshal(f.recs), err |-> NoError]
    ELSE [tasks |-> <<>>, err |-> NoError]

Load(f) ==
    IF f.kind = "absent" THEN [tasks |-> <<>>, err |-> NoError]
    ELSE IF f.kind = "empty" THEN [tasks |-> <<>>, err |-> NoError]
    ELSE IF f.kind = "json" THEN [tasks |-> Unmarshal(f.recs), err |-> NoError]
    ELSE [tasks |-> <<>>, err |-> "failed to unmarshal tasks"]

MaxIDFirst(tasks, maxID) ==
    IF tasks = <<>> THEN maxID
    ELSE IF Head(tasks).ID > maxID THEN Head(tasks).ID ELSE maxID

RECURSIVE MaxID(_, _)
MaxID(tasks, maxID) ==
    IF tasks = <<>> THEN maxID
    ELSE MaxID(Tail(tasks), IF Head(tasks).ID > maxID THEN Head(tasks).ID ELSE maxID)

GetNextIDLen(f) ==
    LET l == Load(f)
    IN  IF l.err # NoError THEN [id |-> 0, err |-> l.err]
        ELSE [id |-> Len(l.tasks) + 1, err |-> NoError]

GetNextID(f) ==
    LET l == Load(f)
    IN  IF l.err # NoError THEN [id |-> 0, err |-> l.err]
        ELSE [id |-> MaxID(l.tasks, 0) + 1, err |-> NoError]

----------------------------------------------------------------------------
(* TaskService *)

(* Index of the first task whose ID is id; 0 stands for the code's -1. *)
RECURSIVE FindFrom(_, _, _)
FindFrom(tasks, id, i) ==
    IF i > Len(tasks) THEN 0
    ELSE IF tasks[i].ID = id THEN i
    ELSE FindFrom(tasks, id, i + 1)

taskIndexDefaultFirst(tasks, id) ==
    IF FindFrom(tasks, id, 1) = 0 /\ tasks # <<>> THEN 1 ELSE FindFrom(tasks, id, 1)

taskIndex(tasks, id) == FindFrom(tasks, id, 1)

SlicesDeleteTruncate(tasks, i, j) == SubSeq(tasks, 1, i - 1)

SlicesDelete(tasks, i, j) ==
    SubSeq(tasks, 1, i - 1) \o SubSeq(tasks, j, Len(tasks))

(* fmt.Errorf("msg: %w", e): an error whose text is msg, a colon and the *)
(* text of e, and whose Unwrap is e.                                     *)
WrapOpaque(msg, e) == msg

Wrap(msg, e) == msg \o ": " \o e

(* What a call returns and what it did: the artifact it leaves, the error *)
(* and the task or tasks it returns, the repository calls it made in      *)
(* order, and the collection it passed to Save.                           *)
Failed(f, e) ==
    [file |-> f, err |-> e, task |-> NoTask, tasks |-> <<>>, saves |-> 0, id |-> 0,
     calls |-> <<>>, data |-> <<>>]

SavedSuppressed(sv, task) ==
    [file |-> sv.file, err |-> NoError, task |-> task, tasks |-> <<>>, saves |-> 1,
     id |-> 0, calls |-> <<>>, data |-> <<>>]

Saved(sv, task) ==
    [file |-> sv.file, err |-> sv.err, task |-> task, tasks |-> <<>>, saves |-> 1,
     id |-> 0, calls |-> <<>>, data |-> <<>>]

Did(calls, data, r) == [r EXCEPT !.calls = calls, !.data = data]

AppendedUnlessPresent(tasks, task) ==
    IF \E i \in 1 .. Len(tasks) : tasks[i].ID = task.ID THEN tasks
    ELSE Append(tasks, task)

AppendedAlone(tasks, task) == <<task>>

AppendedInFront(tasks, task) == <<task>> \o tasks

Appended(tasks, task) == Append(tasks, task)

AddTask(f, description, now) ==
    LET next == GetNextID(f)
        made == NewTask(next.id, description, now)
        l    == Load(f)
        data == Appended(l.tasks, made.task)
        sv   == Save(f, data)
    IN  IF next.err # NoError
        THEN Did(<<"GetNextID">>, <<>>,
                 Failed(f, Wrap("failed to get next ID", next.err)))
        ELSE IF made.err # NoError
        THEN Did(<<"GetNextID">>, <<>>, Failed(f, made.err))
        ELSE IF l.err # NoError
        THEN Did(<<"GetNextID", "Load">>, <<>>,
                 Failed(f, Wrap("failed to load tasks", l.err)))
        ELSE IF sv.err # NoError
        THEN Did(<<"GetNextID", "Load", "Save">>, data,
                 [Failed(sv.file, Wrap("failed to save tasks", sv.err))
                    EXCEPT !.saves = 1])
        ELSE Did(<<"GetNextID", "Load", "Save">>, data, Saved(sv, made.task))

UpdateTask(f, id, description, now) ==
    LET l    == Load(f)
        i    == taskIndex(l.tasks, id)
        upd  == UpdateDescription(l.tasks[i], description, now)
        data == [l.tasks EXCEPT ![i] = upd.task]
    IN  IF l.err # NoError
        THEN Did(<<"Load">>, <<>>, Failed(f, Wrap("failed to load tasks", l.err)))
        ELSE IF i = 0 THEN Did(<<"Load">>, <<>>, Failed(f, ErrTaskNotFound))
        ELSE IF upd.err # NoError THEN Did(<<"Load">>, <<>>, Failed(f, upd.err))
        ELSE Did(<<"Load", "Save">>, data, Saved(Save(f, data), NoTask))

DeleteTask(f, id) ==
    LET l    == Load(f)
        i    == taskIndex(l.tasks, id)
        data == SlicesDelete(l.tasks, i, i + 1)
    IN  IF l.err # NoError
        THEN Did(<<"Load">>, <<>>, Failed(f, Wrap("failed to load tasks", l.err)))
        ELSE IF i = 0 THEN Did(<<"Load">>, <<>>, Failed(f, ErrTaskNotFound))
        ELSE Did(<<"Load", "Save">>, data, Saved(Save(f, data), NoTask))

ApplyUpdateFn(fn, t, now) ==
    IF fn = "MarkInProgress" THEN MarkInProgress(t, now) ELSE MarkDone(t, now)

updateTaskStatus(f, id, fn, now) ==
    LET l    == Load(f)
        i    == taskIndex(l.tasks, id)
        data == [l.tasks EXCEPT ![i] = ApplyUpdateFn(fn, l.tasks[i], now)]
    IN  IF l.err # NoError
        THEN Did(<<"Load">>, <<>>, Failed(f, Wrap("failed to load tasks", l.err)))
        ELSE IF i = 0 THEN Did(<<"Load">>, <<>>, Failed(f, ErrTaskNotFound))
        ELSE Did(<<"Load", "Save">>, data, Saved(Save(f, data), NoTask))

MarkTaskInProgress(f, id, now) == updateTaskStatus(f, id, "MarkInProgress", now)

MarkTaskDone(f, id, now) == updateTaskStatus(f, id, "MarkDone", now)

RECURSIVE FilterStatus(_, _)
FilterStatus(tasks, status) ==
    IF tasks = <<>> THEN <<>>
    ELSE IF Head(tasks).Status = status
         THEN <<Head(tasks)>> \o FilterStatus(Tail(tasks), status)
         ELSE FilterStatus(Tail(tasks), status)

ListTasksValidated(f, status) ==
    LET l == Load(f)
    IN  IF l.err # NoError
        THEN Did(<<"Load">>, <<>>, Failed(f, Wrap("failed to load tasks", l.err)))
        ELSE IF status = ""
        THEN Did(<<"Load">>, <<>>, [Failed(f, NoError) EXCEPT !.tasks = l.tasks])
        ELSE IF status \notin {StatusTodo, StatusInProgress, StatusDone}
        THEN Did(<<"Load">>, <<>>, Failed(f, "INVALID_STATUS"))
        ELSE Did(<<"Load">>, <<>>,
                 [Failed(f, NoError) EXCEPT !.tasks = FilterStatus(l.tasks, status)])

ListTasks(f, status) ==
    LET l == Load(f)
    IN  IF l.err # NoError
        THEN Did(<<"Load">>, <<>>, Failed(f, Wrap("failed to load tasks", l.err)))
        ELSE IF status = ""
        THEN Did(<<"Load">>, <<>>, [Failed(f, NoError) EXCEPT !.tasks = l.tasks])
        ELSE Did(<<"Load">>, <<>>,
                 [Failed(f, NoError) EXCEPT !.tasks = FilterStatus(l.tasks, status)])

----------------------------------------------------------------------------
(* The service as a state machine: one action per use case.  A TaskService *)
(* holds nothing but its repository and a FileTaskRepository nothing but   *)
(* its file name, so service instances that share the artifact issue the   *)
(* same calls with the same effects; a call is an action on the artifact.  *)

Stored == Load(file).tasks

NoReading == 0 - 1

(* The record of a call: its arguments, the artifact it found, what it    *)
(* returned, the repository calls it made, the collection it handed to    *)
(* Save, how often it called Save and the clock reading it stamped.       *)
Outcome(op, id, description, status, r, now) ==
    [op |-> op, id |-> id, description |-> description, status |-> status,
     pre |-> file, err |-> r.err, task |-> r.task, tasks |-> r.tasks,
     saves |-> r.saves, next |-> r.id, calls |-> r.calls, data |-> r.data,
     now |-> IF r.err = NoError THEN now ELSE NoReading]

(* The processes that share the artifact, and a process outside a call. *)
Procs == {1, 2}

(* pc: where the process is in its call; next: what GetNextID returned;   *)
(* tasks: what Load returned; data: the collection it saves; old: what    *)
(* the artifact held when it opened it for writing; top: whether it was   *)
(* the last process to write to the artifact; calls: the calls it made.   *)
IdleProc ==
    [pc |-> "idle", op |-> "none", id |-> 0, next |-> 0, tasks |-> <<>>,
     data |-> <<>>, old |-> <<>>, err |-> NoError, task |-> NoTask,
     top |-> FALSE, calls |-> 0]

Init ==
    /\ file = AbsentFile
    /\ clock = 0
    /\ last = [op |-> "none", id |-> 0, description |-> <<>>, status |-> "",
               pre |-> AbsentFile, err |-> NoError, task |-> NoTask, tasks |-> <<>>,
               saves |-> 0, next |-> 0, calls |-> <<>>, data |-> <<>>,
               now |-> NoReading]
    /\ addedSeq = <<>>
    /\ deleteCalled = FALSE
    /\ medium = "ok"
    /\ procs = [p \in Procs |-> IdleProc]

(* The wall clock advances between calls. *)
Tick ==
    /\ clock < MaxClock
    /\ clock' = clock + 1
    /\ UNCHANGED <<medium, procs, file, last, addedSeq, deleteCalled>>

AddTaskCall(cap) ==
    \E d \in Descriptions :
        LET r == AddTask(file, d, clock)
        IN  /\ Len(addedSeq) < MaxAdds
            /\ Len(Stored) < cap
            /\ file' = r.file
            /\ last' = Outcome("AddTask", 0, d, "", r, clock)
            /\ addedSeq' = IF r.err = NoError THEN Append(addedSeq, r.task.ID)
                                               ELSE addedSeq
            /\ UNCHANGED <<medium, procs, clock, deleteCalled>>

DoAddTask == AddTaskCall(MaxTasks)

DoUpdateTask ==
    \E id \in IdArgs, d \in Descriptions :
        LET r == UpdateTask(file, id, d, clock)
        IN  /\ file' = r.file
            /\ last' = Outcome("UpdateTask", id, d, "", r, clock)
            /\ UNCHANGED <<medium, procs, clock, addedSeq, deleteCalled>>

DoDeleteTask ==
    \E id \in IdArgs :
        LET r == DeleteTask(file, id)
        IN  /\ file' = r.file
            /\ last' = Outcome("DeleteTask", id, <<>>, "", r, NoReading)
            /\ deleteCalled' = TRUE
            /\ UNCHANGED <<medium, procs, clock, addedSeq>>

DoMarkTaskInProgress ==
    \E id \in IdArgs :
        LET r == MarkTaskInProgress(file, id, clock)
        IN  /\ file' = r.file
            /\ last' = Outcome("MarkTaskInProgress", id, <<>>, "", r, clock)
            /\ UNCHANGED <<medium, procs, clock, addedSeq, deleteCalled>>

DoMarkTaskDone ==
    \E id \in IdArgs :
        LET r == MarkTaskDone(file, id, clock)
        IN  /\ file' = r.file
            /\ last' = Outcome("MarkTaskDone", id, <<>>, "", r, clock)
            /\ UNCHANGED <<medium, procs, clock, addedSeq, deleteCalled>>

DoListTasks ==
    \E status \in StatusFilters :
        LET r == ListTasks(file, status)
        IN  /\ file' = r.file
            /\ last' = Outcome("ListTasks", 0, <<>>, status, r, NoReading)
            /\ UNCHANGED <<medium, procs, clock, addedSeq, deleteCalled>>

Next ==
    \/ DoAddTask
    \/ DoUpdateTask
    \/ DoDeleteTask
    \/ DoMarkTaskInProgress
    \/ DoMarkTaskDone
    \/ DoListTasks
    \/ Tick

Spec == Init /\ [][Next]_vars

(* The same calls issued within one reading of the clock, on collections *)
(* of up to MaxAdds tasks.                                               *)
DoAddTaskStill == AddTaskCall(MaxAdds)

NextStill ==
    \/ DoAddTaskStill
    \/ DoUpdateTask
    \/ DoDeleteTask
    \/ DoMarkTaskInProgress
    \/ DoMarkTaskDone
    \/ DoListTasks

SpecStill == Init /\ [][NextStill]_vars

----------------------------------------------------------------------------
(* The repository on its own: callers save whole collections of their   *)
(* choosing and ask for the collection and the next id.                  *)

MaxRepoLen == 3

RepoIds == {1, 3, 5, 42}

(* One task per id: new, updated at a later reading, already loaded from *)
(* the artifact, with characters that JSON escapes.                      *)
RepoTask(id) ==
    IF id = 1
    THEN [ID |-> id, Description |-> <<"a">>, Status |-> StatusTodo,
          CreatedAt |-> Now(0), UpdatedAt |-> Now(0)]
    ELSE IF id = 3
    THEN [ID |-> id, Description |-> <<"b", " ", "c">>, Status |-> StatusInProgress,
          CreatedAt |-> Now(0), UpdatedAt |-> Now(1)]
    ELSE IF id = 5
    THEN [ID |-> id, Description |-> <<"a">>, Status |-> StatusDone,
          CreatedAt |-> ParseTime(0), UpdatedAt |-> ParseTime(1)]
    ELSE [ID |-> id, Description |-> <<"<", "\"", "\\">>, Status |-> StatusTodo,
          CreatedAt |-> ParseTime(1), UpdatedAt |-> Now(1)]

(* Collections of tasks with distinct ids, in every order. *)
RepoCollections ==
    { tasks \in UNION { [1 .. n -> {RepoTask(id) : id \in RepoIds}] : n \in 0 .. MaxRepoLen } :
        \A i, j \in 1 .. Len(tasks) : i # j => tasks[i].ID # tasks[j].ID }

RepoSave ==
    \E tasks \in RepoCollections :
        LET sv == Save(file, tasks)
        IN  /\ file' = sv.file
            /\ last' = Outcome("Save", 0, <<>>, "",
                               [Failed(file, sv.err) EXCEPT !.saves = 1, !.tasks = tasks],
                               NoReading)
            /\ UNCHANGED <<medium, procs, clock, addedSeq, deleteCalled>>

RepoLoad ==
    LET l == Load(file)
    IN  /\ last' = Outcome("Load", 0, <<>>, "",
                           [Failed(file, l.err) EXCEPT !.tasks = l.tasks], NoReading)
        /\ UNCHANGED <<medium, procs, file, clock, addedSeq, deleteCalled>>

RepoGetNextID ==
    LET next == GetNextID(file)
    IN  /\ last' = Outcome("GetNextID", 0, <<>>, "",
                           [Failed(file, next.err) EXCEPT !.id = next.id], NoReading)
        /\ UNCHANGED <<medium, procs, file, clock, addedSeq, deleteCalled>>

RepoNext ==
    \/ RepoSave
    \/ RepoLoad
    \/ RepoGetNextID

SpecRepo == Init /\ [][RepoNext]_vars

----------------------------------------------------------------------------
(* The service on an artifact that others can damage or remove and on a *)
(* medium whose writes can fail, within one reading of the clock.       *)

Environment(op) == Outcome(op, 0, <<>>, "", Failed(file, NoError), NoReading)

(* Another program leaves the file empty or with content that is not JSON. *)
EnvWrite ==
    \E f \in {EmptyFile, MalformedFile} :
        /\ file' = f
        /\ last' = Environment("env:write")
        /\ UNCHANGED <<clock, addedSeq, deleteCalled, medium, procs>>

(* The file is removed. *)
EnvRemove ==
    /\ file.kind # "absent"
    /\ file' = AbsentFile
    /\ last' = Environment("env:remove")
    /\ UNCHANGED <<clock, addedSeq, deleteCalled, medium, procs>>

(* The medium changes: permissions, free space. *)
EnvMedium ==
    \E m \in Media \ {medium} :
        /\ medium' = m
        /\ last' = Environment("env:medium")
        /\ UNCHANGED <<file, clock, addedSeq, deleteCalled, procs>>

FaultNext ==
    \/ DoAddTask
    \/ DoUpdateTask
    \/ DoDeleteTask
    \/ DoMarkTaskInProgress
    \/ DoMarkTaskDone
    \/ DoListTasks
    \/ RepoLoad
    \/ RepoGetNextID
    \/ EnvWrite

    \/ EnvRemove
    \/ EnvMedium

SpecFault == Init /\ [][FaultNext]_vars

----------------------------------------------------------------------------
(* Two processes on one artifact.  A call is a sequence of steps, one per *)
(* access to the file: the Load inside GetNextID, the Load of the call,   *)
(* and for Save the open of os.WriteFile, which truncates the file, and   *)
(* its write, which the kernel may perform in parts.  The steps of the    *)
(* two processes interleave freely: nothing in the code locks the file.   *)
(* AddTask stands for the calls that add, MarkTaskDone for the calls that *)
(* load, change one task and save, ListTasks for the calls that only load.*)

MaxCalls == 2

RaceDescriptions == {<<"a">>, <<"b">>}

RaceIds == 1 .. MaxTasks

Other(p) == CHOOSE q \in Procs : q # p

CanCall(p) == procs[p].pc \in {"idle", "done"} /\ procs[p].calls < MaxCalls

Called(p, op, id) ==
    [IdleProc EXCEPT !.op = op, !.id = id, !.calls = procs[p].calls + 1,
                     !.top = procs[p].top]

Returned(c, e) == [c EXCEPT !.pc = "done", !.err = e]

OnlyProcs == UNCHANGED <<file, clock, last, addedSeq, deleteCalled, medium>>

RaceAddTaskGetNextID(p) ==
    \E d \in RaceDescriptions :
        LET next == GetNextID(file)
            made == NewTask(next.id, d, clock)
            c    == Called(p, "AddTask", 0)
        IN  /\ CanCall(p)
            /\ Len(Stored) < MaxTasks
            /\ procs' = [procs EXCEPT ![p] =
                  IF next.err # NoError THEN Returned(c, Wrap("failed to get next ID", next.err))
                  ELSE IF made.err # NoError THEN Returned(c, made.err)
                  ELSE [c EXCEPT !.pc = "gotID", !.next = next.id, !.task = made.task]]
            /\ OnlyProcs

RaceAddTaskLoad(p) ==
    LET l == Load(file)
        c == procs[p]
    IN  /\ c.pc = "gotID"
        /\ procs' = [procs EXCEPT ![p] =
              IF l.err # NoError
              THEN Returned([c EXCEPT !.task = NoTask], Wrap("failed to load tasks", l.err))
              ELSE [c EXCEPT !.pc = "loaded", !.tasks = l.tasks,
                             !.data = Appended(l.tasks, c.task)]]
        /\ OnlyProcs

RaceMarkTaskDoneLoad(p) ==
    \E id \in RaceIds :
        LET l == Load(file)
            i == taskIndex(l.tasks, id)
            c == Called(p, "MarkTaskDone", id)
        IN  /\ CanCall(p)
            /\ procs' = [procs EXCEPT ![p] =
                  IF l.err # NoError THEN Returned(c, Wrap("failed to load tasks", l.err))
                  ELSE IF i = 0 THEN Returned(c, ErrTaskNotFound)
                  ELSE [c EXCEPT !.pc = "loaded", !.tasks = l.tasks,
                                 !.data = [l.tasks EXCEPT
                                             ![i] = MarkDone(l.tasks[i], clock)]]]
            /\ OnlyProcs

RaceListTasks(p) ==
    LET l == Load(file)
        c == Called(p, "ListTasks", 0)
    IN  /\ CanCall(p)
        /\ procs' = [procs EXCEPT ![p] =
              IF l.err # NoError THEN Returned(c, Wrap("failed to load tasks", l.err))
              ELSE Returned([c EXCEPT !.tasks = l.tasks], NoError)]
        /\ OnlyProcs

(* The write of p is the last one to the artifact. *)
Topped(p, c) ==
    [q \in Procs |-> IF q = p THEN [c EXCEPT !.top = TRUE]
                               ELSE [procs[q] EXCEPT !.top = FALSE]]

(* os.WriteFile opens the file: O_TRUNC empties it. *)
RaceSaveOpen(p) ==
    /\ procs[p].pc = "loaded"
    /\ file' = EmptyFile
    /\ procs' = Topped(p, [procs[p] EXCEPT !.pc = "writing", !.old = Stored])
    /\ UNCHANGED <<clock, last, addedSeq, deleteCalled, medium>>

(* A part of the data has reached the file. *)
RaceSaveWritePart(p) ==
    /\ procs[p].pc = "writing"
    /\ file = EmptyFile
    /\ file' = MalformedFile
    /\ procs' = Topped(p, procs[p])
    /\ UNCHANGED <<clock, last, addedSeq, deleteCalled, medium>>

(* All of the data has reached the file and Save returns.  When the other *)
(* process wrote to the file in between, the file holds the data or a mix *)
(* of both writes, depending on their lengths.                            *)
RaceSaveWrite(p) ==
    /\ procs[p].pc = "writing"
    /\ \/ file' = Save(file, procs[p].data).file
       \/ ~procs[p].top /\ file' = MalformedFile
    /\ procs' = Topped(p, Returned(procs[p], NoError))
    /\ UNCHANGED <<clock, last, addedSeq, deleteCalled, medium>>

RaceNext ==
    \E p \in Procs :
        \/ RaceAddTaskGetNextID(p)
        \/ RaceAddTaskLoad(p)
        \/ RaceMarkTaskDoneLoad(p)
        \/ RaceListTasks(p)
        \/ RaceSaveOpen(p)
        \/ RaceSaveWritePart(p)
        \/ RaceSaveWrite(p)

SpecRace == Init /\ [][RaceNext]_vars

----------------------------------------------------------------------------
(* Two service instances on one artifact, one whole call at a time.  An   *)
(* instance is a TaskService over its own FileTaskRepository; both        *)
(* repositories name the same file.  procs[s] records the history of      *)
(* instance s: op and err, its last call and the error it returned;       *)
(* tasks, the collection that call loaded; old, the collection the last   *)
(* successful mutating call of either instance had saved when the call    *)
(* began; data, the collection the instance saved last; top, whether the  *)
(* instance made the last successful mutating call; pc, "new" for an      *)
(* instance constructed after the first calls.                            *)

(* What an instance reads: the file named by its repository, whatever the *)
(* instance did before.  Neither struct has a field that holds tasks.     *)
ArtifactCached(inst, f) ==
    IF inst.op = "none" THEN f ELSE JSONFile(Marshal(inst.tasks))

Artifact(inst, f) == f

(* The collection saved by the last successful mutating call. *)
Left ==
    IF \E p \in Procs : procs[p].top
    THEN procs[CHOOSE p \in Procs : procs[p].top].data
    ELSE <<>>

(* Instance s has made the call op with the result r. *)
SharedCalled(s, op, r) ==
    LET wrote == op # "ListTasks" /\ r.err = NoError
    IN  /\ procs[s].calls < MaxCalls
        /\ procs' = [p \in Procs |->
                    IF p = s
                    THEN [procs[s] EXCEPT !.op = op,
                                          !.calls = @ + 1,
                                          !.err = r.err,
                                          !.tasks = Load(Artifact(procs[s], file)).tasks,
                                          !.old = Left,
                                          !.data = IF wrote THEN r.data ELSE @,
                                          !.top = wrote \/ @]
                    ELSE [procs[p] EXCEPT !.top = @ /\ ~wrote]]

SharedAddTask(s) ==
    \E d \in RaceDescriptions :
        LET r == AddTask(Artifact(procs[s], file), d, clock)
        IN  /\ Len(addedSeq) < MaxAdds
            /\ Len(Stored) < MaxTasks
            /\ file' = r.file
            /\ last' = Outcome("AddTask", 0, d, "", r, clock)
            /\ addedSeq' = IF r.err = NoError THEN Append(addedSeq, r.task.ID)
                                               ELSE addedSeq
            /\ SharedCalled(s, "AddTask", r)
            /\ UNCHANGED <<medium, clock, deleteCalled>>

SharedUpdateTask(s) ==
    \E id \in RaceIds, d \in RaceDescriptions :
        LET r == UpdateTask(Artifact(procs[s], file), id, d, clock)
        IN  /\ file' = r.file
            /\ last' = Outcome("UpdateTask", id, d, "", r, clock)
            /\ SharedCalled(s, "UpdateTask", r)
            /\ UNCHANGED <<medium, clock, addedSeq, deleteCalled>>

SharedDeleteTask(s) ==
    \E id \in RaceIds :
        LET r == DeleteTask(Artifact(procs[s], file), id)
        IN  /\ file' = r.file
            /\ last' = Outcome("DeleteTask", id, <<>>, "", r, NoReading)
            /\ deleteCalled' = TRUE
            /\ SharedCalled(s, "DeleteTask", r)
            /\ UNCHANGED <<medium, clock, addedSeq>>

SharedMarkTaskInProgress(s) ==
    \E id \in RaceIds :
        LET r == MarkTaskInProgress(Artifact(procs[s], file), id, clock)
        IN  /\ file' = r.file
            /\ last' = Outcome("MarkTaskInProgress", id, <<>>, "", r, clock)
            /\ SharedCalled(s, "MarkTaskInProgress", r)
            /\ UNCHANGED <<medium, clock, addedSeq, deleteCalled>>

SharedMarkTaskDone(s) ==
    \E id \in RaceIds :
        LET r == MarkTaskDone(Artifact(procs[s], file), id, clock)
        IN  /\ file' = r.file
            /\ last' = Outcome("MarkTaskDone", id, <<>>, "", r, clock)
            /\ SharedCalled(s, "MarkTaskDone", r)
            /\ UNCHANGED <<medium, clock, addedSeq, deleteCalled>>

SharedListTasks(s) ==
    LET r == ListTasks(Artifact(procs[s], file), "")
    IN  /\ file' = r.file
        /\ last' = Outcome("ListTasks", 0, <<>>, "", r, NoReading)
        /\ SharedCalled(s, "ListTasks", r)
        /\ UNCHANGED <<medium, clock, addedSeq, deleteCalled>>

(* NewTaskService(NewFileTaskRepository(name)): an instance that is not *)
(* the last writer is replaced by a new one on the same file.           *)
SharedNewTaskService(s) ==
    /\ procs[s].op # "none"
    /\ ~procs[s].top
    /\ procs' = [procs EXCEPT ![s] = [IdleProc EXCEPT !.pc = "new",
                                                       !.calls = procs[s].calls]]
    /\ last' = Outcome("NewTaskService", 0, <<>>, "", Failed(file, NoError), NoReading)
    /\ UNCHANGED <<file, medium, clock, addedSeq, deleteCalled>>

SharedNext ==
    \E s \in Procs :
        \/ SharedAddTask(s)
        \/ SharedUpdateTask(s)
        \/ SharedDeleteTask(s)
        \/ SharedMarkTaskInProgress(s)
        \/ SharedMarkTaskDone(s)
        \/ SharedListTasks(s)
        \/ SharedNewTaskService(s)

SpecShared == Init /\ [][SharedNext]_vars

----------------------------------------------------------------------------
(* Vocabulary of the properties *)

StoredIds == {Stored[i].ID : i \in 1 .. Len(Stored)}

IdsOf(tasks) == [i \in 1 .. Len(tasks) |-> tasks[i].ID]

Whitespace == {" ", "\t", "\n", "\r", "\f"}

(* d is empty or consists of whitespace only. *)
Blank(d) == \A i \in 1 .. Len(d) : d[i] \in Whitespace

(* d without its leading and trailing whitespace, for d not blank. *)
Trimmed(d) ==
    LET solid == {i \in 1 .. Len(d) : d[i] \notin Whitespace}
        lo == CHOOSE i \in solid : \A j \in solid : i <= j
        hi == CHOOSE i \in solid : \A j \in solid : j <= i
    IN  SubSeq(d, lo, hi)

(* time.Time.Equal: the same instant. *)
TimeEqual(a, b) == a.wall = b.wall

(* Equality of tasks as the callers compare them (field by field, instants by Equal). *)
SameTask(a, b) ==
    /\ a.ID = b.ID
    /\ a.Description = b.Description
    /\ a.Status = b.Status
    /\ TimeEqual(a.CreatedAt, b.CreatedAt)
    /\ TimeEqual(a.UpdatedAt, b.UpdatedAt)

(* Position of the first stored task with this id (0 when there is none). *)
FirstAt(tasks, id) ==
    IF \E i \in 1 .. Len(tasks) : tasks[i].ID = id
    THEN CHOOSE i \in 1 .. Len(tasks) :
            /\ tasks[i].ID = id
            /\ \A j \in 1 .. (i - 1) : tasks[j].ID # id
    ELSE 0

----------------------------------------------------------------------------
(* The collection stored before the last call. *)
Pre == Load(last.pre).tasks

PreIds == {Pre[i].ID : i \in 1 .. Len(Pre)}

Succeeded(op) == last.op = op /\ last.err = NoError

----------------------------------------------------------------------------
(* C1: identifier assignment is strictly increasing: each successful AddTask *)
(* returns an id strictly greater than the id returned by every earlier      *)
(* successful AddTask, deletions in between included (the claim as stated).  *)
C1_StrictlyIncreasingIds ==
    \A i, j \in 1 .. Len(addedSeq) : i < j => addedSeq[i] < addedSeq[j]

(* C1 (amended): each successful AddTask returns an id strictly greater than *)
(* the id of every task stored at the time of the call, hence greater than   *)
(* the id returned by every earlier successful AddTask whose id is still     *)
(* stored; an id whose task has been deleted may be returned again.          *)
C1_GreaterThanStoredIds ==
    Succeeded("AddTask") =>
        /\ \A i \in 1 .. Len(Pre) : Pre[i].ID < last.task.ID
        /\ addedSeq # <<>>
        /\ addedSeq[Len(addedSeq)] = last.task.ID
        /\ \A k \in 1 .. (Len(addedSeq) - 1) :
              addedSeq[k] \in PreIds => addedSeq[k] < last.task.ID

(* A successful AddTask after a deletion, on a collection that still holds *)
(* the task of an earlier AddTask.                                         *)
C1_Witness ==
    /\ Succeeded("AddTask")
    /\ deleteCalled
    /\ Len(addedSeq) = 3
    /\ PreIds = {addedSeq[1]}
    /\ Len(Stored) = 2

(* C2: no two tasks of the stored collection have the same id. *)
C2_UniqueIds ==
    \A i, j \in 1 .. Len(Stored) : i # j => Stored[i].ID # Stored[j].ID

(* Two tasks stored, the younger one added after a deletion had freed an id. *)
C2_Witness ==
    /\ Len(Stored) = 2
    /\ deleteCalled
    /\ Len(addedSeq) = 3
    /\ addedSeq[3] \in StoredIds
    /\ addedSeq[3] \in {addedSeq[1], addedSeq[2]}

(* C3: UpdateTask, DeleteTask, MarkTaskInProgress and MarkTaskDone called with *)
(* an id that no stored task has return TaskNotFound, call Save zero times and *)
(* leave the stored collection exactly as it was.                              *)
C3_NotFoundLeavesStore ==
    (/\ last.op \in {"UpdateTask", "DeleteTask", "MarkTaskInProgress", "MarkTaskDone"}
     /\ last.id \notin PreIds) =>
        /\ last.err = ErrTaskNotFound
        /\ last.saves = 0
        /\ file = last.pre

(* DeleteTask has just failed with TaskNotFound on a non-empty collection. *)
C3_Witness ==
    /\ last.op = "DeleteTask"
    /\ last.id \notin PreIds
    /\ last.err = ErrTaskNotFound
    /\ Len(Pre) = 2
    /\ Stored = Pre

(* C4: for every empty or whitespace-only description, AddTask(description)  *)
(* and UpdateTask(id, description), for every id argument, fail with the     *)
(* EmptyDescription error and the stored collection is unchanged (the claim  *)
(* as stated).                                                               *)
C4_BlankAlwaysEmptyDescription ==
    (last.op \in {"AddTask", "UpdateTask"} /\ Blank(last.description)) =>
        /\ last.err = ErrEmptyDescription
        /\ file = last.pre

(* C4 (amended): for every empty or whitespace-only description, AddTask     *)
(* fails with EmptyDescription, UpdateTask fails with EmptyDescription when  *)
(* a stored task has the id and with TaskNotFound when none has; in every    *)
(* case Save is not called and the stored collection is unchanged.           *)
C4_BlankRejected ==
    (last.op \in {"AddTask", "UpdateTask"} /\ Blank(last.description)) =>
        /\ last.err = IF last.op = "UpdateTask" /\ last.id \notin PreIds
                       THEN ErrTaskNotFound
                       ELSE ErrEmptyDescription
        /\ last.saves = 0
        /\ file = last.pre

(* UpdateTask of a stored task has just been refused a whitespace-only description. *)
C4_Witness ==
    /\ last.op = "UpdateTask"
    /\ last.id \in PreIds
    /\ Blank(last.description)
    /\ last.description # <<>>
    /\ last.err = ErrEmptyDescription
    /\ Stored = Pre

(* C5: for every description that is not empty after trimming, AddTask      *)
(* succeeds and the stored collection is the previous one with exactly one  *)
(* task appended at the end: the task returned, whose description is the    *)
(* trimmed input, whose status is todo and whose createdAt equals its       *)
(* updatedAt; the tasks stored before are unchanged and in the same order.  *)
C5_AddAppends ==
    (last.op = "AddTask" /\ ~Blank(last.description)) =>
        /\ last.err = NoError
        /\ last.saves = 1
        /\ Len(Stored) = Len(Pre) + 1
        /\ SubSeq(Stored, 1, Len(Pre)) = Pre
        /\ SameTask(Stored[Len(Stored)], last.task)
        /\ last.task.Description = Trimmed(last.description)
        /\ last.task.Status = "todo"
        /\ TimeEqual(last.task.CreatedAt, last.task.UpdatedAt)
        /\ Stored[Len(Stored)].CreatedAt = Stored[Len(Stored)].UpdatedAt

(* A description with surrounding whitespace has been added behind an older task. *)
C5_Witness ==
    /\ Succeeded("AddTask")
    /\ Len(Pre) = 1
    /\ last.description # Trimmed(last.description)
    /\ Pre[1].Status # "todo"
    /\ Pre[1].UpdatedAt # Pre[1].CreatedAt

(* C6: from an empty store, n successful AddTask calls with no DeleteTask in *)
(* between return the ids 1, 2, ..., n in call order, whatever UpdateTask,   *)
(* MarkTaskInProgress, MarkTaskDone or ListTasks calls are interleaved.      *)
C6_SequentialIds ==
    ~deleteCalled => addedSeq = [i \in 1 .. Len(addedSeq) |-> i]

(* Three tasks added with no DeleteTask call, one of them since updated and marked. *)
C6_Witness ==
    /\ ~deleteCalled
    /\ Len(addedSeq) = 3
    /\ Len(Stored) = 3
    /\ \E i \in 1 .. Len(Stored) :
          /\ Stored[i].Status = "done"
          /\ Stored[i].Description = <<"b", " ", "c">>

(* C7: GetNextID returns 1 for an empty stored collection and the maximum id *)
(* present plus one for a non-empty one, whatever the order of the tasks     *)
(* (ids 1,5,3 give 6; a single task with id 42 gives 43).                    *)
C7_NextIdIsMaxPlusOne ==
    last.op = "GetNextID" =>
        /\ last.err = NoError
        /\ Stored = <<>> => last.next = 1
        /\ Stored # <<>> =>
              /\ (last.next - 1) \in StoredIds
              /\ \A id \in StoredIds : id <= last.next - 1
        /\ IdsOf(Stored) = <<1, 5, 3>> => last.next = 6
        /\ IdsOf(Stored) = <<42>> => last.next = 43

(* GetNextID has answered 6 for the stored ids 1, 5, 3. *)
C7_Witness ==
    /\ last.op = "GetNextID"
    /\ IdsOf(Stored) = <<1, 5, 3>>
    /\ last.next = 6

(* C8: DeleteTask(id) with id stored succeeds and the stored collection is    *)
(* the previous one without its first entry of that id: one entry shorter,   *)
(* every other task unchanged and in the same relative order.                *)
C8_DeleteRemovesOne ==
    (last.op = "DeleteTask" /\ last.id \in PreIds) =>
        LET k == FirstAt(Pre, last.id)
        IN  /\ last.err = NoError
            /\ last.saves = 1
            /\ Len(Stored) = Len(Pre) - 1
            /\ \A i \in 1 .. (k - 1) : Stored[i] = Pre[i]
            /\ \A i \in k .. Len(Stored) : Stored[i] = Pre[i + 1]

(* The second of three stored tasks has been deleted. *)
C8_Witness ==
    /\ Succeeded("DeleteTask")
    /\ Len(Pre) = 3
    /\ Pre[2].ID = last.id
    /\ Stored = <<Pre[1], Pre[3]>>

(* C9: UpdateTask(id, d) with id stored and d not empty after trimming      *)
(* changes only the matched task's description (to the trimmed d) and its   *)
(* updatedAt; its id, status, createdAt and position and every other stored *)
(* task are unchanged.                                                      *)
C9_UpdateFrame ==
    (last.op = "UpdateTask" /\ last.id \in PreIds /\ ~Blank(last.description)) =>
        LET k == FirstAt(Pre, last.id)
        IN  /\ last.err = NoError
            /\ Len(Stored) = Len(Pre)
            /\ \A i \in 1 .. Len(Pre) : i # k => Stored[i] = Pre[i]
            /\ Stored[k] = [Pre[k] EXCEPT !.Description = Trimmed(last.description),
                                          !.UpdatedAt = ParseTime(last.now)]

(* The description of the second of two tasks, created earlier and already *)
(* in progress, has been replaced.                                         *)
C9_Witness ==
    /\ Succeeded("UpdateTask")
    /\ Len(Pre) = 2
    /\ Pre[2].ID = last.id
    /\ Pre[2].Status = "in-progress"
    /\ Pre[2].Description # Stored[2].Description
    /\ Stored[2].CreatedAt.wall < Stored[2].UpdatedAt.wall

StatusesOf(tasks) == [i \in 1 .. Len(tasks) |-> tasks[i].Status]

TargetStatus(op) == IF op = "MarkTaskInProgress" THEN "in-progress" ELSE "done"

Again(op, f, id, now) ==
    IF op = "MarkTaskInProgress" THEN MarkTaskInProgress(f, id, now)
                                 ELSE MarkTaskDone(f, id, now)

(* C10: MarkTaskInProgress(id) and MarkTaskDone(id) with id stored succeed   *)
(* from every current status, set the stored status to in-progress           *)
(* respectively done, refresh updatedAt and change no other field and no     *)
(* other task; applying the same operation twice in succession leaves the    *)
(* same status as applying it once.                                          *)
C10_MarkUnconditional ==
    (last.op \in {"MarkTaskInProgress", "MarkTaskDone"} /\ last.id \in PreIds) =>
        LET k == FirstAt(Pre, last.id)
        IN  /\ last.err = NoError
            /\ Len(Stored) = Len(Pre)
            /\ \A i \in 1 .. Len(Pre) : i # k => Stored[i] = Pre[i]
            /\ Stored[k] = [Pre[k] EXCEPT !.Status = TargetStatus(last.op),
                                          !.UpdatedAt = ParseTime(last.now)]
            /\ \A now \in clock .. MaxClock :
                  LET twice == Again(last.op, file, last.id, now)
                  IN  /\ twice.err = NoError
                      /\ StatusesOf(Load(twice.file).tasks) = StatusesOf(Stored)

(* MarkTaskDone has succeeded on a task that was done already, at a later *)
(* clock reading, next to a task of another status.                       *)
C10_Witness ==
    /\ Succeeded("MarkTaskDone")
    /\ Len(Pre) = 2
    /\ LET k == FirstAt(Pre, last.id)
       IN  /\ Pre[k].Status = "done"
           /\ Pre[k].UpdatedAt.wall < Stored[k].UpdatedAt.wall
           /\ Stored[3 - k].Status = "todo"

----------------------------------------------------------------------------
Statuses == {StatusTodo, StatusInProgress, StatusDone}

(* The status of the task with this id after the call, made now. *)
StatusAfter(r, id) ==
    LET after == Load(r.file).tasks
    IN  IF r.err = NoError /\ FirstAt(after, id) # 0
        THEN after[FirstAt(after, id)].Status
        ELSE "none"

(* The statuses to which one call of the service brings the stored task id. *)
StatusesInOneCall(id) ==
    {StatusAfter(MarkTaskInProgress(file, id, clock), id),
     StatusAfter(MarkTaskDone(file, id, clock), id)}
    \cup {StatusAfter(UpdateTask(file, id, d, clock), id) : d \in Descriptions}

(* C11 as stated: every status is reachable from every other one: a task  *)
(* whose status is s can be brought to every other status t of todo,      *)
(* in-progress and done by calling the corresponding operation.           *)
C11_AnyStatusFromAny ==
    \A i \in 1 .. Len(Stored) :
        \A t \in Statuses \ {Stored[i].Status} :
            t \in StatusesInOneCall(Stored[i].ID)

(* C11: in-progress and done are reachable from every status: whatever the *)
(* status of a stored task, MarkTaskInProgress brings it to in-progress    *)
(* and MarkTaskDone brings it to done; todo is the status of a new task    *)
(* only: no call that keeps a task brings it to todo from another status.  *)
C11_MarkedFromAny ==
    /\ \A i \in 1 .. Len(Stored) :
          /\ StatusAfter(MarkTaskInProgress(file, Stored[i].ID, clock), Stored[i].ID)
                = StatusInProgress
          /\ StatusAfter(MarkTaskDone(file, Stored[i].ID, clock), Stored[i].ID)
                = StatusDone
    /\ (last.op \in {"UpdateTask", "MarkTaskInProgress", "MarkTaskDone", "ListTasks"}
        /\ last.err = NoError) =>
          \A i \in 1 .. Len(Pre) :
              Stored[i].Status = StatusTodo => Pre[i].Status = StatusTodo

(* A task that was done has been brought back to in-progress, next to a *)
(* task that is still todo.                                             *)
C11_Witness ==
    /\ Succeeded("MarkTaskInProgress")
    /\ Len(Pre) >= 2
    /\ LET k == FirstAt(Pre, last.id)
       IN  /\ Pre[k].Status = StatusDone
           /\ Stored[k].Status = StatusInProgress
           /\ \E i \in 1 .. Len(Stored) : Stored[i].Status = StatusTodo

----------------------------------------------------------------------------
(* The tasks of the collection whose status is this one, in its order. *)
WithStatus(tasks, status) == SelectSeq(tasks, LAMBDA t : t.Status = status)

(* C12: ListTasks("") returns every stored task in stored order; ListTasks(f) *)
(* for a non-empty f returns exactly the stored tasks whose status equals f,  *)
(* in stored order; for an f that is none of todo, in-progress and done it    *)
(* returns an empty result and no error.  The store is left as it was.        *)
C12_ListTasksFilters ==
    (last.op = "ListTasks" /\ Load(last.pre).err = NoError) =>
        /\ last.err = NoError
        /\ file = last.pre
        /\ last.status = "" => last.tasks = Pre
        /\ last.status # "" => last.tasks = WithStatus(Pre, last.status)
        /\ last.status \notin Statuses \cup {""} => last.tasks = <<>>

(* Of three stored tasks the first and the third are todo and the second *)
(* is not: ListTasks("todo") has returned the first and the third.       *)
C12_Witness ==
    /\ Succeeded("ListTasks")
    /\ last.status = StatusTodo
    /\ Len(Pre) = 3
    /\ Pre[2].Status # StatusTodo
    /\ last.tasks = <<Pre[1], Pre[3]>>

----------------------------------------------------------------------------
(* The instant a is not after the instant b. *)
NotAfter(a, b) == a.wall <= b.wall

UpdatedNotBeforeCreated(t) == NotAfter(t.CreatedAt, t.UpdatedAt)

(* C20: with a clock that never goes backwards, every task, returned or *)
(* stored, has updatedAt >= createdAt in every reachable state, and the  *)
(* updatedAt of a task never decreases across a successful mutation.     *)
C20_UpdatedAtMonotone ==
    /\ \A i \in 1 .. Len(Stored) : UpdatedNotBeforeCreated(Stored[i])
    /\ last.task # NoTask => UpdatedNotBeforeCreated(last.task)
    /\ \A i \in 1 .. Len(last.tasks) : UpdatedNotBeforeCreated(last.tasks[i])
    /\ (last.op \in {"UpdateTask", "MarkTaskInProgress", "MarkTaskDone"}
        /\ last.err = NoError) =>
          \A i \in 1 .. Len(Pre) : NotAfter(Pre[i].UpdatedAt, Stored[i].UpdatedAt)

(* A task created at an earlier clock reading has been marked in progress *)
(* at a later one, next to a task created at the later reading.           *)
C20_Witness ==
    /\ Succeeded("MarkTaskInProgress")
    /\ Len(Stored) = 2
    /\ last.id = Stored[1].ID
    /\ Pre[1].UpdatedAt.wall < Stored[1].UpdatedAt.wall
    /\ Stored[1].CreatedAt.wall < Stored[1].UpdatedAt.wall
    /\ Stored[2].CreatedAt.wall = Stored[1].UpdatedAt.wall

----------------------------------------------------------------------------
(* Equal collections: the same tasks in the same order. *)
SameTasks(a, b) ==
    /\ Len(a) = Len(b)
    /\ \A i \in 1 .. Len(a) : SameTask(a[i], b[i])

----------------------------------------------------------------------------
ServiceOps ==
    {"AddTask", "UpdateTask", "DeleteTask", "MarkTaskInProgress", "MarkTaskDone",
     "ListTasks"}

(* C14 as stated: a failed Save leaves the previously persisted state      *)
(* untouched: whenever Save returns an error, a subsequent Load returns    *)
(* exactly the collection persisted before that Save, never a partial one. *)
C14_FailedSaveLeavesStore ==
    (last.op \in ServiceOps /\ last.saves = 1 /\ last.err # NoError) =>
        Load(file) = Load(last.pre)

(* C18: Load returns an empty collection and no error when the artifact   *)
(* does not exist and when it exists but is empty; it returns an error    *)
(* and no collection when the artifact's content is not well-formed.      *)
C18_LoadOutcomes ==
    last.op = "Load" =>
        /\ file = last.pre
        /\ last.pre.kind \in {"absent", "empty"} =>
              last.err = NoError /\ last.tasks = <<>>
        /\ last.pre.kind = "malformed" =>
              last.err # NoError /\ last.tasks = <<>>
        /\ last.pre.kind = "json" =>
              last.err = NoError /\ last.tasks = Unmarshal(last.pre.recs)

(* Load has been called on an artifact that exists and is empty, after *)
(* tasks had been added.                                               *)
C18_Witness ==
    /\ last.op = "Load"
    /\ last.pre = EmptyFile
    /\ last.err = NoError
    /\ addedSeq # <<>>

(* C19: while the artifact is malformed every service operation returns an *)
(* error and leaves the artifact unchanged; once the artifact has been     *)
(* removed the operations work again from an empty collection, so that the *)
(* next AddTask gets id 1.                                                 *)
C19_MalformedThenRemoved ==
    /\ (last.op \in ServiceOps /\ last.pre = MalformedFile) =>
          /\ last.err # NoError
          /\ last.task = NoTask /\ last.tasks = <<>>
          /\ last.saves = 0
          /\ file = last.pre
    /\ (last.op = "AddTask" /\ last.pre = AbsentFile /\ medium = "ok"
        /\ ~Blank(last.description)) =>
          /\ last.err = NoError
          /\ last.task.ID = 1
          /\ SameTasks(Stored, <<last.task>>)
    /\ (last.op = "ListTasks" /\ last.pre = AbsentFile) =>
          last.err = NoError /\ last.tasks = <<>>

(* AddTask has returned id 1 a second time, on an artifact that was absent *)
(* again, although no task had been deleted.                               *)
C19_Witness ==
    /\ Succeeded("AddTask")
    /\ last.pre = AbsentFile
    /\ last.task.ID = 1
    /\ addedSeq = <<1, 1>>
    /\ ~deleteCalled

----------------------------------------------------------------------------
(* Some task of the collection is this one. *)
Holds(tasks, t) == \E i \in 1 .. Len(tasks) : SameTask(tasks[i], t)

(* The next access of the process to the file is a Load. *)
LoadsNext(q) == procs[q].pc \in {"idle", "done", "gotID"}

(* C13 as stated: Save is atomic from the caller's perspective: while one  *)
(* process executes Save(new) on a store holding old, every Load by        *)
(* another process returns either exactly old or exactly new, never an     *)
(* empty, truncated or unparseable intermediate result.                    *)
C13_LoadSeesOldOrNew ==
    \A p \in Procs :
        (procs[p].pc = "writing" /\ procs[p].top /\ LoadsNext(Other(p))) =>
            LET l == Load(file)
            IN  /\ l.err = NoError
                /\ \/ SameTasks(l.tasks, procs[p].old)
                   \/ SameTasks(l.tasks, procs[p].data)

(* The collection a successful mutating call leaves, computed from the *)
(* collection it loaded.                                               *)
Intended(c) ==
    IF c.op = "AddTask" THEN Append(c.tasks, c.task)
    ELSE [i \in 1 .. Len(c.tasks) |->
            IF i = FirstAt(c.tasks, c.id)
            THEN [c.tasks[i] EXCEPT !.Status = StatusDone, !.UpdatedAt = Now(clock)]
            ELSE c.tasks[i]]

HasSaved(p) ==
    /\ procs[p].pc = "done"
    /\ procs[p].op \in {"AddTask", "MarkTaskDone"}
    /\ procs[p].err = NoError

(* C15: lost update is reachable.  Without locking the last Save wins: a   *)
(* mutating call that has saved returned success, and while its write is   *)
(* the latest the store holds exactly the collection the call loaded with  *)
(* the call's own change, whatever another process saved between that Load *)
(* and that Save.                                                          *)
C15_LastSaveWins ==
    \A p \in Procs :
        /\ (procs[p].pc = "done" /\ procs[p].data # <<>>) => procs[p].err = NoError
        /\ (HasSaved(p) /\ procs[p].top /\ Load(file).err = NoError) =>
              SameTasks(Stored, Intended(procs[p]))

(* Both processes have returned success: the first added a task and saved  *)
(* it, the second then saved what it had loaded before, marked done, over  *)
(* it: the stored collection does not contain the task the first added.    *)
C15_Witness ==
    \E p \in Procs :
        LET q == Other(p)
        IN  /\ HasSaved(p) /\ procs[p].op = "AddTask"
            /\ HasSaved(q) /\ procs[q].op = "MarkTaskDone" /\ procs[q].top
            /\ Holds(procs[q].old, procs[p].task)
            /\ ~Holds(procs[q].tasks, procs[p].task)
            /\ ~Holds(Stored, procs[p].task)
            /\ Stored # <<>>

(* The ids that occur more than once in the collection. *)
DuplicateIds(tasks) ==
    {tasks[i].ID : i \in {k \in 1 .. Len(tasks) :
                            \E j \in 1 .. Len(tasks) : j # k /\ tasks[j].ID = tasks[k].ID}}

(* C16: GetNextID is not safe against concurrent callers.  AddTask keeps   *)
(* the id GetNextID gave it and appends its task to whatever its later     *)
(* Load returns, without looking for that id there: a successful AddTask   *)
(* returns the id of its GetNextID step, and while its write is the latest *)
(* the store is the loaded collection followed by that task, even when the *)
(* loaded collection holds the id already.                                 *)
C16_AddTaskKeepsItsId ==
    \A p \in Procs :
        (HasSaved(p) /\ procs[p].op = "AddTask") =>
            /\ procs[p].task.ID = procs[p].next
            /\ (procs[p].top /\ Load(file).err = NoError) =>
                  /\ Len(Stored) = Len(procs[p].tasks) + 1
                  /\ Stored[Len(Stored)].ID = procs[p].next
                  /\ IdsOf(SubSeq(Stored, 1, Len(procs[p].tasks))) = IdsOf(procs[p].tasks)

(* Two AddTask calls of the two processes have both returned success with *)
(* the same id, and the store holds two tasks with that id.               *)
C16_Witness ==
    /\ \A p \in Procs : HasSaved(p) /\ procs[p].op = "AddTask"
    /\ procs[1].task.ID = procs[2].task.ID
    /\ procs[1].task.ID \in DuplicateIds(Stored)
    /\ Holds(Stored, procs[1].task)
    /\ Holds(Stored, procs[2].task)

----------------------------------------------------------------------------
(* The id and the instant of creation of each task of the collection. *)
Born(tasks) == {<<tasks[i].ID, tasks[i].CreatedAt.wall>> : i \in 1 .. Len(tasks)}

SameBirth(a, b) == a.ID = b.ID /\ TimeEqual(a.CreatedAt, b.CreatedAt)

(* C21: the id and the createdAt of a task never change after its creation: *)
(* whatever call is made, successful or failed, every task still stored has  *)
(* the id and the createdAt it had before the call, and the only task that   *)
(* is new is the one a successful AddTask appends, created at that call.     *)
C21_IdAndCreatedAtFixed ==
    last.op \in ServiceOps =>
        /\ last.op \in {"UpdateTask", "MarkTaskInProgress", "MarkTaskDone", "ListTasks"} =>
              /\ Len(Stored) = Len(Pre)
              /\ \A i \in 1 .. Len(Pre) : SameBirth(Stored[i], Pre[i])
        /\ last.op = "AddTask" =>
              /\ \A i \in 1 .. Len(Pre) : SameBirth(Stored[i], Pre[i])
              /\ Len(Stored) = Len(Pre) + (IF last.err = NoError THEN 1 ELSE 0)
              /\ last.err = NoError =>
                    /\ Stored[Len(Stored)].CreatedAt.wall = last.now
                    /\ SameBirth(Stored[Len(Stored)], last.task)
        /\ last.op = "DeleteTask" => Born(Stored) \subseteq Born(Pre)

(* A task created at an earlier clock reading and already in progress has *)
(* been marked done at a later reading, after a task created at the later *)
(* reading was added: both have kept their id and createdAt.              *)
C21_Witness ==
    /\ Succeeded("MarkTaskDone")
    /\ Len(Stored) = 2
    /\ last.id = Stored[1].ID
    /\ Pre[1].Status = StatusInProgress
    /\ Stored[1].CreatedAt.wall < Stored[2].CreatedAt.wall
    /\ Stored[1].UpdatedAt.wall = Stored[2].CreatedAt.wall

----------------------------------------------------------------------------
(* d is not empty and neither begins nor ends with whitespace. *)
IsTrimmed(d) ==
    /\ d # <<>>
    /\ d[1] \notin Whitespace
    /\ d[Len(d)] \notin Whitespace

(* C22: in every state reachable from an empty store by service operations, *)
(* the description of every stored task is non-empty and carries no leading  *)
(* or trailing whitespace: it equals its own trimmed form.                   *)
C22_DescriptionsTrimmed ==
    \A i \in 1 .. Len(Stored) :
        /\ IsTrimmed(Stored[i].Description)
        /\ Trimmed(Stored[i].Description) = Stored[i].Description

(* UpdateTask has been given a description with whitespace around it for *)
(* a task added with inner whitespace: the store holds it trimmed.       *)
C22_Witness ==
    /\ Succeeded("UpdateTask")
    /\ last.description # Trimmed(last.description)
    /\ LET k == FirstAt(Pre, last.id)
       IN  /\ Stored[k].Description = Trimmed(last.description)
           /\ Len(Pre[k].Description) = 3

----------------------------------------------------------------------------
(* AddTask or UpdateTask has been called with an empty or whitespace-only *)
(* description.                                                           *)
BlankCall == last.op \in {"AddTask", "UpdateTask"} /\ Blank(last.description)

(* C23 as stated: AddTask and UpdateTask called with a blank description *)
(* return EmptyDescription without having made any repository call,      *)
(* whatever the artifact holds.                                          *)
C23_NoRepositoryCallBeforeFailure ==
    BlankCall => last.err = ErrEmptyDescription /\ last.calls = <<>>

(* C23: AddTask and UpdateTask called with a blank description fail before *)
(* any Save and leave the artifact as it was. AddTask has called GetNextID *)
(* and nothing else: it returns EmptyDescription when the artifact can be  *)
(* read and the wrapped error of GetNextID when it cannot. UpdateTask has  *)
(* called Load and nothing else: it returns the wrapped error of Load when *)
(* the artifact cannot be read, TaskNotFound when the id is absent, and    *)
(* EmptyDescription otherwise.                                             *)
C23_EmptyDescriptionBeforeSave ==
    BlankCall =>
        /\ file = last.pre
        /\ last.saves = 0
        /\ last.task = NoTask
        /\ last.op = "AddTask" =>
              /\ last.calls = <<"GetNextID">>
              /\ last.err = IF GetNextID(last.pre).err = NoError
                            THEN ErrEmptyDescription
                            ELSE Wrap("failed to get next ID", GetNextID(last.pre).err)
        /\ last.op = "UpdateTask" =>
              /\ last.calls = <<"Load">>
              /\ last.err = IF Load(last.pre).err # NoError
                            THEN Wrap("failed to load tasks", Load(last.pre).err)
                            ELSE IF last.id \notin StoredIds
                            THEN ErrTaskNotFound
                            ELSE ErrEmptyDescription

(* AddTask has been called with a blank description on a malformed *)
(* artifact and has returned the error of GetNextID.               *)
C23_Witness ==
    /\ last.op = "AddTask"
    /\ Blank(last.description)
    /\ last.description # <<>>
    /\ last.pre = MalformedFile
    /\ last.calls = <<"GetNextID">>
    /\ last.err = "failed to get next ID: failed to unmarshal tasks"

----------------------------------------------------------------------------
(* The error of the repository call that failed in the last service call, *)
(* NoError when none failed: the first call of every operation reads the  *)
(* artifact, and Save is the only call that writes it.                    *)
RepoError ==
    IF last.op \notin ServiceOps THEN NoError
    ELSE IF Load(last.pre).err # NoError THEN Load(last.pre).err
    ELSE IF last.saves = 1 THEN Save(last.pre, last.data).err
    ELSE NoError

(* C25 as stated: the error a service operation returns when a repository *)
(* call failed is the error of that call itself.                          *)
C25_ErrorIsRepositoryError ==
    RepoError # NoError => last.err = RepoError

(* C25: when a repository call fails with e the operation returns e under *)
(* a prefix that names the failed step: "failed to get next ID: e" from   *)
(* AddTask's GetNextID, "failed to load tasks: e" from every Load and     *)
(* "failed to save tasks: e" from AddTask's Save. The error is e itself   *)
(* only when Save fails in UpdateTask, DeleteTask, MarkTaskInProgress or  *)
(* MarkTaskDone.                                                          *)
C25_ErrorWrapsRepositoryError ==
    RepoError # NoError =>
        LET failing == last.calls[Len(last.calls)]
        IN  /\ last.calls # <<>>
            /\ failing = "GetNextID" =>
                  last.err = "failed to get next ID: " \o RepoError
            /\ failing = "Load" =>
                  last.err = "failed to load tasks: " \o RepoError
            /\ (failing = "Save" /\ last.op = "AddTask") =>
                  last.err = "failed to save tasks: " \o RepoError
            /\ (failing = "Save" /\ last.op # "AddTask") =>
                  last.err = RepoError

(* The Save of AddTask has failed on a medium that cannot be written and *)
(* AddTask has returned the error under its prefix.                      *)
C25_Witness ==
    /\ last.op = "AddTask"
    /\ last.saves = 1
    /\ RepoError = "failed to write file"
    /\ last.err = "failed to save tasks: failed to write file"
    /\ Len(Pre) = 1

----------------------------------------------------------------------------
(* No repository call occurs twice in calls. *)
NoRepeat(calls) ==
    \A i, j \in 1 .. Len(calls) : calls[i] = calls[j] => i = j

(* C26: when a repository call of a service operation fails, the operation *)
(* returns an error and no task or list; the failed call is the last call  *)
(* it made and no call was made twice. After a failed GetNextID or Load    *)
(* there is no Save and the artifact is as it was.                         *)
C26_NoSuppressionNoRetry ==
    RepoError # NoError =>
        /\ last.err # NoError
        /\ last.task = NoTask
        /\ last.tasks = <<>>
        /\ NoRepeat(last.calls)
        /\ IF Load(last.pre).err # NoError
           THEN /\ Len(last.calls) = 1
                /\ last.calls[1] = IF last.op = "AddTask" THEN "GetNextID" ELSE "Load"
                /\ last.saves = 0
                /\ file = last.pre
           ELSE /\ last.calls[Len(last.calls)] = "Save"
                /\ last.calls =
                      IF last.op = "AddTask" THEN <<"GetNextID", "Load", "Save">>
                      ELSE <<"Load", "Save">>

(* DeleteTask has loaded two tasks and its Save has failed on a medium *)
(* that cannot be opened for writing: it has returned the error.       *)
C26_Witness ==
    /\ last.op = "DeleteTask"
    /\ Len(Pre) = 2
    /\ medium = "open-fails"
    /\ last.calls = <<"Load", "Save">>
    /\ last.err = "failed to write file"

----------------------------------------------------------------------------
MutatingOps ==
    {"AddTask", "UpdateTask", "DeleteTask", "MarkTaskInProgress", "MarkTaskDone"}

(* The tasks of a with an id other than id, in order. *)
Others(a, id) == SelectSeq(a, LAMBDA t : t.ID # id)

(* C27: a successful mutating operation loads the collection before it  *)
(* saves, calls Save once, as its last repository call, and saves the    *)
(* full collection: every loaded task it was not asked to change is in   *)
(* what it saves, unchanged and in order, and the artifact then holds    *)
(* what it saved. ListTasks calls Load only and leaves the artifact      *)
(* unchanged.                                                            *)
C27_LoadThenOneSave ==
    /\ (last.op \in MutatingOps /\ last.err = NoError) =>
          /\ last.calls = IF last.op = "AddTask"
                          THEN <<"GetNextID", "Load", "Save">>
                          ELSE <<"Load", "Save">>
          /\ last.saves = 1
          /\ SameTasks(Stored, last.data)
          /\ IF last.op = "AddTask"
             THEN /\ Len(last.data) = Len(Pre) + 1
                  /\ SubSeq(last.data, 1, Len(Pre)) = Pre
             ELSE /\ Others(last.data, last.id) = Others(Pre, last.id)
                  /\ Len(last.data) =
                        IF last.op = "DeleteTask" THEN Len(Pre) - 1 ELSE Len(Pre)
    /\ last.op = "ListTasks" =>
          /\ last.calls = <<"Load">>
          /\ last.saves = 0
          /\ file = last.pre

(* UpdateTask has changed the second of three stored tasks and saved all *)
(* three.                                                                *)
C27_Witness ==
    /\ Succeeded("UpdateTask")
    /\ Len(Pre) = 3
    /\ last.id = Pre[2].ID
    /\ Len(last.data) = 3
    /\ last.data[2].Description # Pre[2].Description
    /\ last.calls = <<"Load", "Save">>

----------------------------------------------------------------------------
(* C28: GetNextID leaves the artifact unchanged and returns what a second *)
(* call returns; an AddTask that failed, on validation or on storage,     *)
(* leaves GetNextID returning what it returned before that call, so that  *)
(* the next successful AddTask gets the id it would have got.             *)
C28_GetNextIDReservesNothing ==
    /\ last.op = "GetNextID" =>
          /\ file = last.pre
          /\ GetNextID(file) = [id |-> last.next, err |-> last.err]
    /\ (last.op = "AddTask" /\ last.err # NoError) =>
          GetNextID(file) = GetNextID(last.pre)

(* The same for the failures of AddTask that come before its Save. *)
C28_HoldsBeforeSave ==
    (last.op = "AddTask" /\ last.err # NoError /\ last.saves = 0) =>
        GetNextID(file) = GetNextID(last.pre)

----------------------------------------------------------------------------
(* What ListTasks returns for a filter on the artifact as it is now. *)
Listed(status) == ListTasks(file, status).tasks

(* The statuses s for which ListTasks(s) returns the task t. *)
ListedUnder(t) ==
    {s \in Statuses : \E j \in 1 .. Len(Listed(s)) : Listed(s)[j] = t}

(* C29: the status of every stored task is one of todo, in-progress and   *)
(* done, and the results of ListTasks("todo"), ListTasks("in-progress")   *)
(* and ListTasks("done") partition the result of ListTasks(""): each task *)
(* of ListTasks("") is in exactly one of them and they hold nothing else. *)
C29_StatusesPartitionTheStore ==
    /\ \A i \in 1 .. Len(Stored) : Stored[i].Status \in Statuses
    /\ \A i \in 1 .. Len(Listed("")) :
          Cardinality(ListedUnder(Listed("")[i])) = 1
    /\ Len(Listed(StatusTodo)) + Len(Listed(StatusInProgress))
          + Len(Listed(StatusDone)) = Len(Listed(""))
    /\ \A s \in Statuses : \A j \in 1 .. Len(Listed(s)) :
          \E i \in 1 .. Len(Listed("")) : Listed("")[i] = Listed(s)[j]

(* Three tasks are stored, one of each status, and ListTasks has returned *)
(* the one that is in progress.                                           *)
C29_Witness ==
    /\ Len(Stored) = 3
    /\ {Stored[i].Status : i \in 1 .. 3} = Statuses
    /\ Succeeded("ListTasks")
    /\ last.status = StatusInProgress
    /\ Len(last.tasks) = 1
    /\ Len(Listed(StatusDone)) = 1

----------------------------------------------------------------------------
(* C30: when the operations run one at a time from an empty store, the   *)
(* stored collection is in strictly ascending order of id and every id   *)
(* is at least 1.                                                        *)
C30_StoredAscending ==
    /\ \A i \in 1 .. Len(Stored) : Stored[i].ID >= 1
    /\ \A i, j \in 1 .. Len(Stored) : i < j => Stored[i].ID < Stored[j].ID

(* The first of two tasks was deleted and a third task added after it: *)
(* the store holds the ids 2 and 3 in this order.                      *)
C30_Witness ==
    /\ Succeeded("AddTask")
    /\ addedSeq = <<1, 2, 3>>
    /\ IdsOf(Stored) = <<2, 3>>
    /\ IdsOf(Pre) = <<2>>

----------------------------------------------------------------------------
(* C24: with two service instances on one store and their calls run one   *)
(* whole call at a time in any alternation, the collection a call loads   *)
(* is the collection saved by the most recent successful mutating call of *)
(* either instance (empty when there was none), also for an instance      *)
(* constructed after that call; the store holds that collection, and it   *)
(* is what ListTasks("") returns.                                         *)
C24_InstancesSeeTheLastSave ==
    /\ \A s \in Procs :
          procs[s].op # "none" => SameTasks(procs[s].tasks, procs[s].old)
    /\ SameTasks(Stored, Left)
    /\ Succeeded("ListTasks") => SameTasks(last.tasks, Left)

(* The first instance has added a task and marked it in progress; the  *)
(* second instance has been constructed afterwards and its ListTasks   *)
(* has returned this task as it is read back from the file.            *)
C24_Witness ==
    /\ procs[1].top
    /\ Len(procs[1].data) = 1
    /\ procs[1].data[1].Status = StatusInProgress
    /\ procs[2].pc = "new"
    /\ procs[2].op = "ListTasks"
    /\ SameTasks(procs[2].tasks, procs[1].data)
    /\ last.tasks = procs[2].tasks

====
